---- MODULE Spec2Model ----
(***************************************************************************)
(* Model of server.js: an Express application with three API routes        *)
(*   GET  /api/health                                                      *)
(*   POST /api/create-checkout-session                                     *)
(*   POST /api/webhook                                                     *)
(* behind the globally registered middleware cors(), express.json() and    *)
(* express.static().  The process keeps no state between requests; the     *)
(* only thing that outlives a request is the process environment.  Each    *)
(* action handles one whole request: the middleware that runs before the   *)
(* route, the route handler, the call to the payment provider, the log     *)
(* lines and the responses sent.                                           *)
(*                                                                         *)
(* Library behaviour the handlers rely on (Express 4, which the            *)
(* app.get('*') route of line 134 requires):                               *)
(*   - express.json() gives req.body = {} to a request it does not parse,  *)
(*     parses a body whose Content-Type is application/json, marks the     *)
(*     request as parsed, and answers 400 itself when the text is not      *)
(*     JSON (the route is then never entered);                             *)
(*   - express.raw() leaves a request that is already marked as parsed     *)
(*     alone;                                                              *)
(*   - an exception escaping an async handler is not turned into a         *)
(*     response;                                                           *)
(*   - stripe.webhooks.constructEvent accepts only a string or Buffer      *)
(*     payload whose signature header is the MAC of exactly these bytes    *)
(*     under the secret.                                                   *)
(***************************************************************************)
EXTENDS Integers, Sequences, FiniteSets, TLC

VARIABLES
    envStripeKey,       \* process.env.STRIPE_SECRET_KEY
    envWebhookSecret,   \* process.env.STRIPE_WEBHOOK_SECRET
    envDomain,          \* process.env.RAILWAY_PUBLIC_DOMAIN
    envPort,            \* process.env.PORT
    req,                \* the request being answered
    reqBody,            \* req.body as the route handler sees it
    entered,            \* TRUE when the route handler was entered
    res,                \* the responses sent for the request, in order
    providerCalls,      \* the arguments of stripe.checkout.sessions.create calls
    providerResults,    \* what the provider answered to each of these calls
    verifyCalls,        \* the payloads handed to stripe.webhooks.constructEvent
    trace,              \* the webhook call's states, in order
    dispatched,         \* the switch branch the webhook handler ran
    log,                \* the console lines of the request
    threw               \* TRUE when an exception escaped the handler

vars == <<envStripeKey, envWebhookSecret, envDomain, envPort, req, reqBody,
          entered, res, providerCalls, providerResults, verifyCalls, trace,
          dispatched, log, threw>>

envVars == <<envStripeKey, envWebhookSecret, envDomain, envPort>>

-----------------------------------------------------------------------------
(* JavaScript values *)

Unset == "<undefined>"                 \* an environment variable that is not set

Undef  == [t |-> "undefined", s |-> "", n |-> 0]
Str(x) == [t |-> "string", s |-> x, n |-> 0]
Num(k) == [t |-> "number", s |-> "", n |-> k]

\* truthiness of an environment variable: undefined and "" are falsy
Truthy(v) == v # Unset /\ v # ""

Digit(d) == CASE d = 0 -> "0" [] d = 1 -> "1" [] d = 2 -> "2" [] d = 3 -> "3"
              [] d = 4 -> "4" [] d = 5 -> "5" [] d = 6 -> "6" [] d = 7 -> "7"
              [] d = 8 -> "8" [] d = 9 -> "9"

RECURSIVE Decimal(_)
Decimal(k) == IF k < 0 THEN "-" \o Decimal(0 - k)
              ELSE IF k < 10 THEN Digit(k)
              ELSE Decimal(k \div 10) \o Digit(k % 10)

\* `${v}` in a template literal
TemplateStr(v) == CASE v.t = "undefined" -> "undefined"
                 [] v.t = "string"    -> v.s
                 [] v.t = "number"    -> Decimal(v.n)

-----------------------------------------------------------------------------
(* Bounds of the model *)

MaxPrice == 2           \* small prices tried are -1 .. MaxPrice

-----------------------------------------------------------------------------
(* Requests *)

JsonType  == "application/json"
ContentTypes == {JsonType, "text/plain"}

\* A request body as sent: its bytes either are the JSON text of the object
\* `json`, or are not JSON at all.
JsonText(obj) == [wf |-> TRUE, json |-> obj]
Garbage       == [wf |-> FALSE, json |-> <<>>]

\* the object with the fields of r whose value is not undefined
Defined(r) == [f \in {g \in DOMAIN r : r[g] # Undef} |-> r[f]]

CatalogIds == {"karma", "buttercup", "zero-dark", "zero-light", "boss"}
Products   == {Undef, Str("nope")} \cup {Str(p) : p \in CatalogIds}
Sizes      == {Undef, Str("M"), Str("XL"), Num(8)}
Prices     == {Undef, Str("2500"), Num(2500)} \cup {Num(k) : k \in -1 .. MaxPrice}

OrderBodies ==
    {Garbage} \cup
    {JsonText(Defined([product |-> p, size |-> s, price |-> c])) :
        p \in Products, s \in Sizes, c \in Prices}

EventTypes == {"checkout.session.completed", "payment_intent.succeeded",
               "charge.refunded"}
Payloads   == { [object |-> [id |-> "cs_1", amount_total |-> 2500,
                             customer_details |-> "jo@example.com"]],
                <<>> }
EventBodies ==
    {Garbage} \cup {JsonText([type |-> t, data |-> d]) : t \in EventTypes, d \in Payloads}

Secrets == {"whsec_A", "whsec_B"}

\* the Stripe-Signature header of a sender that signs `bytes` with `key`
Sign(bytes, key) == [present |-> TRUE, bytes |-> bytes, key |-> key]
NoSignature      == [present |-> FALSE, bytes |-> Garbage, key |-> ""]
Signatures       == {NoSignature} \cup {Sign(b, k) : b \in EventBodies, k \in Secrets}

NoRequest == [route |-> "none", ctype |-> "", raw |-> Garbage, sig |-> NoSignature]

-----------------------------------------------------------------------------
(* Middleware *)

\* a JavaScript object and a Buffer as values of req.body
Obj(o) == [tag |-> "object", val |-> o]
Buf(b) == [tag |-> "buffer", val |-> b]

Json(status, body) == [status |-> status, kind |-> "json", body |-> body]
\* res.sendStatus(code): the status with its reason phrase as text
StatusText(code) == IF code = 200 THEN "OK" ELSE "Bad Request"
SendStatus(code) == [status |-> code, kind |-> "text", body |-> StatusText(code)]

\* the answer of Express's default error handler to an error with a status
ErrorPage(code) == [status |-> code, kind |-> "html", body |-> StatusText(code)]

\* app.use(express.json()): runs on every request, before every route.
\* Result: the request as passed on (body, parsed) or the parser's own answer.
ExpressJson(r) ==
    IF r.ctype = JsonType
    THEN IF r.raw.wf
         THEN [next |-> TRUE, body |-> Obj(r.raw.json), parsed |-> TRUE, res |-> <<>>]
         ELSE [next |-> FALSE, body |-> Obj(<<>>), parsed |-> FALSE,
               res |-> <<ErrorPage(400)>>]
    ELSE [next |-> TRUE, body |-> Obj(<<>>), parsed |-> FALSE, res |-> <<>>]

\* express.raw({type: 'application/json'}) on the webhook route: reads the
\* body as a Buffer unless an earlier parser has already read it.
ExpressRaw(r, m) ==
    IF m.parsed THEN m.body
    ELSE IF r.ctype = JsonType THEN Buf(r.raw)
    ELSE m.body

-----------------------------------------------------------------------------
(* GET /api/health *)

\* variant: reports the key as configured whenever the variable exists
HealthBodySetOnly(key) ==
    [status |-> "Server is running!",
     stripe |-> IF key # Unset THEN "configured" ELSE "missing"]

HealthBody(key) ==
    [status |-> "Server is running!",
     stripe |-> IF Truthy(key) THEN "configured" ELSE "missing"]

-----------------------------------------------------------------------------
(* POST /api/create-checkout-session *)

DefaultPort == 3000

\* const PORT = process.env.PORT || 3000, as it prints in a template literal
Port(port) == IF Truthy(port) THEN port ELSE Decimal(DefaultPort)

YourDomain(domain, port) ==
    IF Truthy(domain) THEN "https://" \o domain
    ELSE "http://localhost:" \o Port(port)

productNames ==
    [p \in CatalogIds |->
        CASE p = "karma"      -> "The Karma Tee"
          [] p = "buttercup"  -> "The Buttercup"
          [] p = "zero-dark"  -> "Zero Care - Dark"
          [] p = "zero-light" -> "Zero Care - Light"
          [] p = "boss"       -> "The Boss Move"]

\* productNames[product]: the property whose key is the string of `product`
Lookup(product) ==
    IF TemplateStr(product) \in DOMAIN productNames
    THEN Str(productNames[TemplateStr(product)])
    ELSE Undef

\* const { product, size, price } = req.body
Field(body, f) ==
    IF body.tag = "object" /\ f \in DOMAIN body.val THEN body.val[f] ELSE Undef

ConfigMessage ==
    "Stripe not configured. Add STRIPE_SECRET_KEY to Railway environment variables."

\* variant: takes the price for dollars and converts it to cents
SessionRequestInCents(product, size, price, base) ==
    [payment_method_types |-> <<"card">>,
     mode |-> "payment",
     line_items |-> <<
        [price_data |->
            [currency |-> "usd",
             product_data |->
                [name |-> TemplateStr(Lookup(product)) \o " - Size " \o TemplateStr(size),
                 description |-> "Pre-Order - Ships March 2026"],
             unit_amount |-> IF price.t = "number" THEN Num(price.n * 100) ELSE price],
         quantity |-> 1] >>,
     success_url |-> base \o "/success.html?session_id={CHECKOUT_SESSION_ID}",
     cancel_url |-> base \o "/",
     shipping_address_collection |->
        [allowed_countries |-> <<"US", "CA", "GB", "AU", "NZ", "IE">>],
     metadata |->
        [product |-> product, size |-> size,
         order_type |-> "pre-order", delivery_date |-> "March 2026"]]

\* the argument of stripe.checkout.sessions.create
SessionRequest(product, size, price, base) ==
    [payment_method_types |-> <<"card">>,
     mode |-> "payment",
     line_items |-> <<
        [price_data |->
            [currency |-> "usd",
             product_data |->
                [name |-> TemplateStr(Lookup(product)) \o " - Size " \o TemplateStr(size),
                 description |-> "Pre-Order - Ships March 2026"],
             unit_amount |-> price],
         quantity |-> 1] >>,
     success_url |-> base \o "/success.html?session_id={CHECKOUT_SESSION_ID}",
     cancel_url |-> base \o "/",
     shipping_address_collection |->
        [allowed_countries |-> <<"US", "CA", "GB", "AU", "NZ", "IE">>],
     metadata |->
        [product |-> product, size |-> size,
         order_type |-> "pre-order", delivery_date |-> "March 2026"]]

\* What the provider does with a call: resolves to a session or rejects with
\* an error.  The provider is outside the program, so either can happen.
Created(id)   == [ok |-> TRUE, id |-> id, message |-> ""]
Failed(msg)   == [ok |-> FALSE, id |-> "", message |-> msg]
ProviderOutcomes ==
    {Created("cs_test_1"), Created("cs_test_2"),
     Failed("Invalid API Key provided"), Failed("Invalid integer")}

Line(level, text) == [level |-> level, text |-> text]

\* variant: the credential is not looked at before the provider is called
CheckoutHandlerNoCheck(body, key, domain, port, outcome) ==
    LET product == Field(body, "product")
        size    == Field(body, "size")
        price   == Field(body, "price")
        request == SessionRequest(product, size, price, YourDomain(domain, port))
    IN  IF outcome.ok
        THEN [res |-> <<Json(200, [id |-> outcome.id])>>,
              calls |-> <<request>>, results |-> <<outcome>>,
              log |-> <<Line("log", "Checkout session created: " \o outcome.id)>>,
              threw |-> FALSE]
        ELSE [res |-> <<Json(500, [error |-> outcome.message])>>,
              calls |-> <<request>>, results |-> <<outcome>>,
              log |-> <<Line("error", "Stripe error: " \o outcome.message)>>,
              threw |-> FALSE]

\* variant: the catch block answers with a fixed text instead of error.message
CheckoutHandlerGenericError(body, key, domain, port, outcome) ==
    LET product == Field(body, "product")
        size    == Field(body, "size")
        price   == Field(body, "price")
        request == SessionRequest(product, size, price, YourDomain(domain, port))
    IN  IF ~Truthy(key)
        THEN [res |-> <<Json(500, [error |-> ConfigMessage])>>,
              calls |-> <<>>, results |-> <<>>, log |-> <<>>, threw |-> FALSE]
        ELSE IF outcome.ok
        THEN [res |-> <<Json(200, [id |-> outcome.id])>>,
              calls |-> <<request>>, results |-> <<outcome>>,
              log |-> <<Line("log", "Checkout session created: " \o outcome.id)>>,
              threw |-> FALSE]
        ELSE [res |-> <<Json(500, [error |-> "Payment failed"])>>,
              calls |-> <<request>>, results |-> <<outcome>>,
              log |-> <<Line("error", "Stripe error: " \o outcome.message)>>,
              threw |-> FALSE]

\* the route handler: responses sent, provider calls made and their
\* results, console lines
CheckoutHandler(body, key, domain, port, outcome) ==
    LET product == Field(body, "product")
        size    == Field(body, "size")
        price   == Field(body, "price")
        request == SessionRequest(product, size, price, YourDomain(domain, port))
    IN  IF ~Truthy(key)
        THEN [res |-> <<Json(500, [error |-> ConfigMessage])>>,
              calls |-> <<>>, results |-> <<>>, log |-> <<>>, threw |-> FALSE]
        ELSE IF outcome.ok
        THEN [res |-> <<Json(200, [id |-> outcome.id])>>,
              calls |-> <<request>>, results |-> <<outcome>>,
              log |-> <<Line("log", "Checkout session created: " \o outcome.id)>>,
              threw |-> FALSE]
        ELSE [res |-> <<Json(500, [error |-> outcome.message])>>,
              calls |-> <<request>>, results |-> <<outcome>>,
              log |-> <<Line("error", "Stripe error: " \o outcome.message)>>,
              threw |-> FALSE]

-----------------------------------------------------------------------------
(* POST /api/webhook *)

Verified(event) == [ok |-> TRUE, event |-> event, message |-> ""]
Refused(msg)    == [ok |-> FALSE, event |-> <<>>, message |-> msg]

\* stripe.webhooks.constructEvent(payload, header, secret)
ConstructEvent(payload, sig, secret) ==
    IF payload.tag # "buffer"
    THEN Refused("Webhook payload must be provided as a string or a Buffer")
    ELSE IF ~sig.present
    THEN Refused("No stripe-signature header value was provided")
    ELSE IF sig # Sign(payload.val, secret)
    THEN Refused("No signatures found matching the expected signature for payload")
    ELSE IF ~payload.val.wf
    THEN Refused("Unexpected token in JSON")
    ELSE Verified(payload.val.json)

\* switch (event.type): the branch taken, its console lines, and whether it
\* raised (reading a property of an undefined session raises a TypeError)
Dispatch(event) ==
    CASE event.type = "checkout.session.completed" ->
            IF "object" \in DOMAIN event.data
            THEN [branch |-> "checkout.session.completed",
                  log |-> <<Line("log", "Payment successful! " \o event.data.object.id)>>,
                  threw |-> FALSE]
            ELSE [branch |-> "checkout.session.completed", log |-> <<>>, threw |-> TRUE]
      [] event.type = "payment_intent.succeeded" ->
            [branch |-> "payment_intent.succeeded",
             log |-> <<Line("log", "Payment intent succeeded")>>, threw |-> FALSE]
      [] OTHER ->
            [branch |-> "default",
             log |-> <<Line("log", "Unhandled event type: " \o event.type)>>,
             threw |-> FALSE]

\* the part of the handler after the check of the secret
VerifyAndDispatch(body, sig, secret) ==
    LET v == ConstructEvent(body, sig, secret)
    IN  IF ~v.ok
        THEN [res |-> <<SendStatus(400)>>, verify |-> <<body>>,
              trace |-> <<"Received", "Rejected">>, dispatched |-> "none",
              log |-> <<Line("log", "Webhook signature verification failed: "
                                     \o v.message)>>,
              threw |-> FALSE]
        ELSE LET d == Dispatch(v.event)
             IN  IF d.threw
                 THEN [res |-> <<>>, verify |-> <<body>>,
                       trace |-> <<"Received", "Verified">>,
                       dispatched |-> d.branch, log |-> d.log, threw |-> TRUE]
                 ELSE [res |-> <<Json(200, [received |-> TRUE])>>,
                       verify |-> <<body>>,
                       trace |-> <<"Received", "Verified", "Dispatched">>,
                       dispatched |-> d.branch, log |-> d.log, threw |-> FALSE]

\* variant: a failed verification is acknowledged with 200
WebhookHandlerAckOnFailure(body, sig, secret) ==
    LET h == VerifyAndDispatch(body, sig, secret)
    IN  IF ~Truthy(secret)
        THEN [res |-> <<SendStatus(200)>>, verify |-> <<>>, trace |-> <<"Received">>,
              dispatched |-> "none",
              log |-> <<Line("log", "Webhook secret not configured")>>,
              threw |-> FALSE]
        ELSE IF h.trace = <<"Received", "Rejected">>
        THEN [h EXCEPT !.res = <<SendStatus(200)>>]
        ELSE h

\* variant: no `return` after the 200 of the unconfigured secret, so the
\* handler goes on to verify with an undefined secret and answers again
WebhookHandlerNoReturn(body, sig, secret) ==
    LET h == VerifyAndDispatch(body, sig, secret)
    IN  IF ~Truthy(secret)
        THEN [h EXCEPT !.res = <<SendStatus(200)>> \o h.res,
                       !.trace = <<"Received">> \o Tail(h.trace),
                       !.log = <<Line("log", "Webhook secret not configured")>> \o h.log]
        ELSE h

\* the route handler
WebhookHandler(body, sig, secret) ==
    IF ~Truthy(secret)
    THEN [res |-> <<SendStatus(200)>>, verify |-> <<>>, trace |-> <<"Received">>,
          dispatched |-> "none",
          log |-> <<Line("log", "Webhook secret not configured")>>, threw |-> FALSE]
    ELSE VerifyAndDispatch(body, sig, secret)

-----------------------------------------------------------------------------
(* The server *)

StripeKeys     == {Unset, "", "sk_test_1"}
WebhookSecrets == {Unset, "", "whsec_A"}
Domains        == {Unset, "shop.example"}
Ports          == {Unset, "8080"}

Init ==
    /\ envStripeKey \in StripeKeys
    /\ envWebhookSecret \in WebhookSecrets
    /\ envDomain \in Domains
    /\ envPort \in Ports
    /\ req = NoRequest
    /\ reqBody = Obj(<<>>)
    /\ entered = FALSE
    /\ res = <<>>
    /\ providerCalls = <<>>
    /\ providerResults = <<>>
    /\ verifyCalls = <<>>
    /\ trace = <<>>
    /\ dispatched = "none"
    /\ log = <<>>
    /\ threw = FALSE

\* the server takes a request when none is being answered
Idle == req = NoRequest

\* GET /api/health
Health ==
    /\ Idle
    /\ req' = [NoRequest EXCEPT !.route = "health"]
    /\ reqBody' = Obj(<<>>)
    /\ entered' = TRUE
    /\ res' = <<Json(200, HealthBody(envStripeKey))>>
    /\ providerCalls' = <<>>
    /\ providerResults' = <<>>
    /\ verifyCalls' = <<>>
    /\ trace' = <<>>
    /\ dispatched' = "none"
    /\ log' = <<>>
    /\ threw' = FALSE
    /\ UNCHANGED envVars

\* POST /api/create-checkout-session
CreateCheckoutSession ==
    /\ Idle
    /\ \E ctype \in ContentTypes, raw \in OrderBodies, outcome \in ProviderOutcomes :
        LET r == [route |-> "checkout", ctype |-> ctype, raw |-> raw,
                  sig |-> NoSignature]
            m == ExpressJson(r)
            h == CheckoutHandler(m.body, envStripeKey, envDomain, envPort, outcome)
        IN  /\ req' = r
            /\ reqBody' = m.body
            /\ entered' = m.next
            /\ res' = IF m.next THEN h.res ELSE m.res
            /\ providerCalls' = IF m.next THEN h.calls ELSE <<>>
            /\ providerResults' = IF m.next THEN h.results ELSE <<>>
            /\ verifyCalls' = <<>>
            /\ trace' = <<>>
            /\ dispatched' = "none"
            /\ log' = IF m.next THEN h.log ELSE <<>>
            /\ threw' = IF m.next THEN h.threw ELSE FALSE
            /\ UNCHANGED envVars

\* POST /api/webhook
Webhook ==
    /\ Idle
    /\ \E ctype \in ContentTypes, raw \in EventBodies, sig \in Signatures :
        LET r == [route |-> "webhook", ctype |-> ctype, raw |-> raw, sig |-> sig]
            m == ExpressJson(r)
            b == ExpressRaw(r, m)
            h == WebhookHandler(b, sig, envWebhookSecret)
        IN  /\ req' = r
            /\ reqBody' = IF m.next THEN b ELSE m.body
            /\ entered' = m.next
            /\ res' = IF m.next THEN h.res ELSE m.res
            /\ providerCalls' = <<>>
            /\ providerResults' = <<>>
            /\ verifyCalls' = IF m.next THEN h.verify ELSE <<>>
            /\ trace' = IF m.next THEN h.trace ELSE <<>>
            /\ dispatched' = IF m.next THEN h.dispatched ELSE "none"
            /\ log' = IF m.next THEN h.log ELSE <<>>
            /\ threw' = IF m.next THEN h.threw ELSE FALSE
            /\ UNCHANGED envVars

\* The request is over: req, res and everything computed for them are
\* dropped; nothing but the environment is left for the next request.
EndRequest ==
    /\ ~Idle
    /\ req' = NoRequest
    /\ reqBody' = Obj(<<>>)
    /\ entered' = FALSE
    /\ res' = <<>>
    /\ providerCalls' = <<>>
    /\ providerResults' = <<>>
    /\ verifyCalls' = <<>>
    /\ trace' = <<>>
    /\ dispatched' = "none"
    /\ log' = <<>>
    /\ threw' = FALSE
    /\ UNCHANGED envVars

Next == Health \/ CreateCheckoutSession \/ Webhook \/ EndRequest

Spec == Init /\ [][Next]_vars

-----------------------------------------------------------------------------
(* Vocabulary of the properties *)

IsHealth   == req.route = "health"
IsCheckout == req.route = "checkout"
IsWebhook  == req.route = "webhook"

KeyConfigured    == envStripeKey \notin {Unset, ""}
SecretConfigured == envWebhookSecret \notin {Unset, ""}

\* exactly one response was sent, with this status
Answered(code) == Len(res) = 1 /\ res[1].status = code

\* exactly one response was sent: this status with this JSON object
AnsweredJson(code, body) ==
    /\ Answered(code)
    /\ res[1].kind = "json"
    /\ DOMAIN res[1].body = DOMAIN body
    /\ res[1].body = body

\* the body parser answered the request itself; the route was not entered
RefusedByParser == ~entered /\ res = <<ErrorPage(400)>>

\* the order of the request as the handler reads it
OrderProduct == Field(reqBody, "product")
OrderSize    == Field(reqBody, "size")
OrderPrice   == Field(reqBody, "price")

InCatalog(product) == product.t = "string" /\ product.s \in CatalogIds
PositiveInteger(price) == price.t = "number" /\ price.n > 0

\* no branch of the webhook handler's switch ran
NoDispatch == dispatched = "none"

\* the signature header is the sender's MAC of the bytes sent under the
\* configured secret
CorrectlySigned == req.sig = Sign(req.raw, envWebhookSecret)

-----------------------------------------------------------------------------
(* C1 *)

\* C1 (as stated): with STRIPE_SECRET_KEY unset, every create-checkout-session
\* request, whatever its body, is answered with the 500 configuration error
\* and makes no session-create call.
C1_AsStated ==
    (IsCheckout /\ ~KeyConfigured) =>
        /\ AnsweredJson(500, [error |-> ConfigMessage])
        /\ providerCalls = <<>>

\* C1 (amended): with STRIPE_SECRET_KEY unset, no create-checkout-session
\* request makes a session-create call, whatever its body; a request that
\* reaches the route handler is answered with the 500 configuration error,
\* and a request whose body the JSON body parser rejects is answered with
\* the parser's 400.
C1_NoKeyNoProviderCall ==
    (IsCheckout /\ ~KeyConfigured) =>
        /\ providerCalls = <<>>
        /\ IF entered THEN AnsweredJson(500, [error |-> ConfigMessage])
                      ELSE RefusedByParser

C1_Witness ==
    /\ IsCheckout /\ ~KeyConfigured /\ entered
    /\ InCatalog(OrderProduct) /\ PositiveInteger(OrderPrice)
    /\ AnsweredJson(500, [error |-> ConfigMessage])

-----------------------------------------------------------------------------
(* C2 *)

\* C2: with a webhook secret configured, a webhook call whose signature header
\* is not the signature of its body under that secret is answered with
\* exactly one response, status 400, and runs no branch of the event switch.
C2_BadSignatureRejected ==
    (IsWebhook /\ SecretConfigured /\ ~CorrectlySigned) =>
        Answered(400) /\ NoDispatch

C2_Witness ==
    /\ IsWebhook /\ SecretConfigured /\ entered
    /\ req.sig.present /\ ~CorrectlySigned /\ req.raw.wf
    /\ Len(verifyCalls) = 1
    /\ res = <<SendStatus(400)>>
    /\ trace = <<"Received", "Rejected">>

-----------------------------------------------------------------------------
(* C3 *)

\* C3 (as stated): whenever a webhook call with the JSON content type the
\* route's raw-body parser reads reaches constructEvent, the payload handed
\* to it is a Buffer holding exactly the bytes that were sent; no parser has
\* turned the body into an object before.
C3_RawBytesReachVerification ==
    (IsWebhook /\ req.ctype = JsonType /\ Len(verifyCalls) > 0) =>
        /\ verifyCalls[1].tag = "buffer"
        /\ verifyCalls[1].val = req.raw

-----------------------------------------------------------------------------
(* C4 *)

\* C4 (as stated): with no webhook secret configured, every webhook call,
\* whatever its body and signature header, is answered with 200, without a
\* call of constructEvent, without a branch of the event switch, and with
\* exactly one console line.
C4_NoSecretAlwaysAcknowledged ==
    (IsWebhook /\ ~SecretConfigured) =>
        /\ Answered(200)
        /\ verifyCalls = <<>>
        /\ NoDispatch
        /\ Len(log) = 1

-----------------------------------------------------------------------------
(* C5 *)

-----------------------------------------------------------------------------
(* C6 *)

\* the call ended Rejected: one response, 400, nothing verified or dispatched
EndedRejected ==
    /\ Answered(400)
    /\ NoDispatch
    /\ trace \in {<<>>, <<"Received", "Rejected">>}

\* the call ended Dispatched: Received -> Verified -> Dispatched, one 200
EndedDispatched ==
    /\ Answered(200)
    /\ trace = <<"Received", "Verified", "Dispatched">>
    /\ ~NoDispatch

\* the call was accepted unverified: 200 straight from Received
EndedAcceptedUnverified ==
    /\ Answered(200)
    /\ trace = <<"Received">>
    /\ NoDispatch
    /\ verifyCalls = <<>>

\* C6 (as stated): every webhook call ends with exactly one response in
\* exactly one of the terminal states Rejected (400) and Dispatched (200,
\* reached through Verified).
C6_AsStated ==
    IsWebhook => (EndedRejected \/ EndedDispatched)

\* C6 (amended): every webhook call ends with exactly one response in exactly
\* one of three ways: Rejected (400), Dispatched (200, through Verified), or,
\* when and only when no webhook secret is configured and the call reached
\* the handler, accepted unverified (200 straight from Received, nothing
\* verified, nothing dispatched).  No call is left without a response or
\* sends two, and no call changes the environment, the only state that
\* outlives a call.
C6_OneTerminalState ==
    /\ [](IsWebhook =>
            /\ (EndedRejected \/ EndedDispatched \/ EndedAcceptedUnverified)
            /\ (EndedAcceptedUnverified <=> (entered /\ ~SecretConfigured))
            /\ ~threw)
    /\ [][envVars' = envVars]_vars

C6_Witness ==
    /\ IsWebhook /\ entered /\ ~SecretConfigured
    /\ req.raw.wf /\ req.sig.present
    /\ EndedAcceptedUnverified

-----------------------------------------------------------------------------
(* C7 *)

\* C7 (as stated): the provider's session-create call is made only for an
\* order whose product is in the catalog and whose price is a positive integer.
C7_OnlyValidatedOrders ==
    (IsCheckout /\ Len(providerCalls) > 0) =>
        InCatalog(OrderProduct) /\ PositiveInteger(OrderPrice)

-----------------------------------------------------------------------------
(* C8 *)

\* the display names of the catalog, as the specification's examples give them
DisplayName(id) ==
    CASE id = "karma"      -> "The Karma Tee"
      [] id = "buttercup"  -> "The Buttercup"
      [] id = "zero-dark"  -> "Zero Care - Dark"
      [] id = "zero-light" -> "Zero Care - Light"
      [] id = "boss"       -> "The Boss Move"

\* C8: for a product of the catalog, a size string and a positive price, the
\* request sent to the provider is the only one, has exactly one line item,
\* named "{display name} - Size {size}", with unit_amount the price as sent,
\* currency "usd" and quantity 1, and metadata product and size as sent; for
\* karma / M / 2500 the name is "The Karma Tee - Size M" and the amount 2500.
C8_LineItem ==
    (IsCheckout /\ Len(providerCalls) > 0 /\ InCatalog(OrderProduct)
        /\ OrderSize.t = "string" /\ PositiveInteger(OrderPrice)) =>
        /\ Len(providerCalls) = 1
        /\ Len(providerCalls[1].line_items) = 1
        /\ LET item == providerCalls[1].line_items[1]
               meta == providerCalls[1].metadata
           IN  /\ item.price_data.product_data.name
                    = DisplayName(OrderProduct.s) \o " - Size " \o OrderSize.s
               /\ item.price_data.unit_amount = req.raw.json.price
               /\ item.price_data.currency = "usd"
               /\ item.quantity = 1
               /\ meta.product = req.raw.json.product
               /\ meta.size = req.raw.json.size
               /\ (OrderProduct = Str("karma") /\ OrderSize = Str("M")
                     /\ OrderPrice = Num(2500)) =>
                        /\ item.price_data.product_data.name = "The Karma Tee - Size M"
                        /\ item.price_data.unit_amount.n = 2500

C8_Witness ==
    /\ IsCheckout /\ Len(providerCalls) = 1
    /\ req.raw.wf /\ req.raw.json = [product |-> Str("karma"), size |-> Str("M"),
                                     price |-> Num(2500)]
    /\ providerCalls[1].line_items[1].price_data.product_data.name
         = "The Karma Tee - Size M"

-----------------------------------------------------------------------------
(* C9 *)

ProviderSucceeded == Len(providerResults) = 1 /\ providerResults[1].ok
ProviderFailed    == Len(providerResults) = 1 /\ ~providerResults[1].ok

\* the outcome rules of the handler: 200 with the id alone when the provider
\* call succeeded; 500 with the message when the credential is missing or the
\* provider call failed, the provider's message verbatim
CheckoutOutcome ==
    /\ ProviderSucceeded => AnsweredJson(200, [id |-> providerResults[1].id])
    /\ ProviderFailed => AnsweredJson(500, [error |-> providerResults[1].message])
    /\ ~KeyConfigured => AnsweredJson(500, [error |-> ConfigMessage])
    /\ Answered(200) <=> ProviderSucceeded

\* C9 (as stated): every create-checkout-session request ends with exactly one
\* response, which follows the outcome rules.
C9_AsStated ==
    IsCheckout => (Len(res) = 1 /\ CheckoutOutcome)

\* C9 (amended): every create-checkout-session request ends with exactly one
\* response; a request that reaches the route handler follows the outcome
\* rules, and a request whose body the JSON body parser rejects gets the
\* parser's 400, with no provider call and no id.
C9_ExactlyOneResponse ==
    IsCheckout =>
        /\ Len(res) = 1
        /\ IF entered THEN CheckoutOutcome /\ res[1].status \in {200, 500}
                      ELSE RefusedByParser /\ providerCalls = <<>>

C9_Witness ==
    /\ IsCheckout /\ entered /\ KeyConfigured
    /\ ProviderFailed
    /\ AnsweredJson(500, [error |-> "Invalid integer"])

-----------------------------------------------------------------------------
(* C10 *)

\* C10 (as stated): GET /api/health answers 200 with a body that holds a
\* status string and a boolean stripeConfigured, true exactly when the
\* provider credential is configured.
C10_AsStated ==
    IsHealth =>
        /\ Answered(200)
        /\ res[1].kind = "json"
        /\ "status" \in DOMAIN res[1].body
        /\ "stripeConfigured" \in DOMAIN res[1].body
        /\ res[1].body.stripeConfigured = KeyConfigured

\* C10 (amended): GET /api/health answers 200 with a body that holds a status
\* string and a string field stripe, which is "configured" exactly when the
\* provider credential is configured and "missing" otherwise.
C10_HealthReportsKey ==
    IsHealth =>
        /\ Answered(200)
        /\ res[1].kind = "json"
        /\ DOMAIN res[1].body = {"status", "stripe"}
        /\ res[1].body.status \in STRING
        /\ res[1].body.stripe = (IF KeyConfigured THEN "configured" ELSE "missing")

C10_Witness ==
    /\ IsHealth /\ KeyConfigured
    /\ Answered(200)
    /\ res[1].body.stripe = "configured"

====
